---- MODULE Spec2Model ----
(***************************************************************************)
(* A model of openskidata-processor's normalization-and-merge core:        *)
(*   - mergeSkiAreaObjects   (src/src/clustering/MergeSkiAreaObjects.ts)   *)
(*   - addElevation          (src/unnamed/part_001, transforms/Elevation)  *)
(*   - prepare               (src/src/PrepareGeoJSON.ts)                   *)
(*   - addElevations         (src/unnamed/part_001), on shared heap      *)
(* Each component has its own specification (SpecMerge, SpecElevation,     *)
(* SpecPrepare, SpecAddElevations); the variables of the other components  *)
(* stay idle.                                                              *)
(***************************************************************************)
EXTENDS Integers, Sequences, FiniteSets, TLC

VARIABLES
    \* ---- mergeSkiAreaObjects (MergeSkiAreaObjects.ts) ----
    primarySkiArea,   \* argument: the primary SkiAreaObject
    otherSkiAreas,    \* argument: the duplicates, in input order
    acc,              \* the reduce accumulator (the return value once mpc = "returned")
    idx,              \* number of duplicates folded so far
    mpc,              \* "idle" | "call" | "reduce" | "returned"
    \* ---- addElevation (Elevation.ts) ----
    featureIn,        \* the feature as it was handed to the enrichment function
    feature,          \* the feature object, mutated in place by addElevations
    profilePoints,    \* what turfLineChunk yields for the feature's line
    coordinates,      \* argument of fetchElevationsWithBrowserHeaders ([lat, lng] pairs)
    elevations,       \* const elevations: number[]
    elevationCache,   \* const elevationCache: Map<string, number>
    ci,               \* position of the for loop: coordinates[ci] is being resolved
    success,          \* let success
    elapsed,          \* Date.now() - startTime, capped just above maxRetryTime
    attempts,         \* let attempts
    retryDelay,       \* let retryDelay
    epc,              \* "idle" | "call" | "for" | "while" | "delay" | "fetch" | "backoff"
                      \* | "resolved" | "rejected"
    \* ---- prepare (PrepareGeoJSON.ts) ----
    config,           \* [clustering, elevation]: which URLs are configured
    ppc,              \* "idle" | "skiAreas" | "runs" | "lifts" | "clustering" | "mapFormat"
                      \* | "done" | "rejected"
    status,           \* per category pipeline: "notStarted" | "running" | "finished" | "failed"
    remaining,        \* per category: raw input features not yet read
    buffered,         \* per category: features held back by the accumulate stage
    written,          \* per category: [path, count] of the category's write stream
    mapStatus,        \* per category: state of its map-format stream
    failed,           \* what prepare's rejection reports: "none" | a category | ...
    \* ---- addElevations on coordinate arrays held by reference (Elevation.ts) ----
    heap,             \* the coordinate arrays in memory: reference -> number[]
    ring,             \* a coordinate list of the geometry: position -> reference
    requested,        \* what getCoordinates returned for the list
    given,            \* the elevations handed to addElevations, one per position
    visited,          \* positions forEach has visited
    pass,             \* how many times the feature has been handed to the enrichment
    apc,              \* "idle" | "visiting" | "returned"
    \* ---- the elevation stage of the run and lift pipelines (PrepareGeoJSON.ts) ----
    stageCategory,    \* "runs" | "lifts": the pipeline the stage belongs to
    stageConfigured,  \* config.elevationServerURL is set
    stageInput,       \* number of features that reach the stage; feature i is the i-th
    admitted,         \* features the stage has taken from its input so far
    inFlight,         \* features whose enrichment has been started and has not settled
    held,             \* features that are ready and have not left the stage
    stageOutput,      \* the features that have left the stage, in order
    spc,              \* "idle" | "open" | "ended"
    \* ---- formatRun (transforms/RunFormatter, as its tests and the spec describe it) ----
    rawRun,           \* the tags of the raw feature handed to formatRun
    formatted,        \* what flatMap(formatRun) sends on: no feature or one run
    fpc,              \* "idle" | "called" | "returned"
    \* ---- enrichments under way at the same time (Elevation.ts under mapAsync) ----
    calls,            \* per enrichment: the locals of fetchElevationsWithBrowserHeaders
    maps,             \* the Map objects in memory: reference -> (key -> elevation)
    touched,          \* <<reference, enrichment>>: the enrichment has read or written the Map
    answered,         \* <<enrichment, key, elevation>>: a lookup of the enrichment got it
    issued            \* <<enrichment, position>>: a lookup that is in flight

mergeVars == <<primarySkiArea, otherSkiAreas, acc, idx, mpc>>

elevationVars == <<featureIn, feature, profilePoints, coordinates, elevations,
                   elevationCache, ci, success, elapsed, attempts, retryDelay, epc>>

prepareVars == <<config, ppc, status, remaining, buffered, written, mapStatus, failed>>

appendVars == <<heap, ring, requested, given, visited, pass, apc>>

stageVars == <<stageCategory, stageConfigured, stageInput, admitted, inFlight, held,
               stageOutput, spc>>

formatVars == <<rawRun, formatted, fpc>>

poolVars == <<calls, maps, touched, answered, issued>>

\* The components added to the first three.
laterVars == <<appendVars, stageVars, formatVars, poolVars>>

vars == <<mergeVars, elevationVars, prepareVars, laterVars>>

(***************************************************************************)
(* Bounds                                                                  *)
(***************************************************************************)
\* Largest number of duplicates handed to one merge call.
MaxDups == 2

\* Largest number of vertices of an input LineString.
MaxVertices == 2

\* Largest number of raw features in one category's input file.
MaxFeatures == 2

\* Largest number of times one feature is handed to the enrichment.
MaxPasses == 2

\* Largest number of features that reach the elevation stage of a pipeline.
MaxStageFeatures == 12

\* Largest number of enrichments under way at the same time.
MaxEnrichments == 2

(***************************************************************************)
(* Values                                                                  *)
(***************************************************************************)
\* JavaScript null (name, status, location are `T | null`).
Null == "<null>"

OPENSTREETMAP == "openstreetmap"
SKIMAP_ORG == "skimap.org"

\* JavaScript truthiness of a `string | null` value: null and "" are falsy.
Truthy(v) == v # Null /\ v # ""

\* JavaScript `a || b`.
Or(a, b) == IF Truthy(a) THEN a ELSE b

SetOf(s) == {s[i] : i \in DOMAIN s}

\* Array.prototype.flat() of an array of arrays.
RECURSIVE Flat(_)
Flat(arrays) ==
    IF arrays = <<>> THEN <<>> ELSE Head(arrays) \o Flat(Tail(arrays))

\* Order-preserving removal of repeated entries (Array.from(new Set(xs))).
RECURSIVE Uniqued(_)
Uniqued(xs) ==
    IF xs = <<>> THEN <<>>
    ELSE LET init == Uniqued(SubSeq(xs, 1, Len(xs) - 1))
             last == xs[Len(xs)]
         IN  IF last \in SetOf(init) THEN init ELSE Append(init, last)

\* utils/mergedAndUniqued: the arrays given, concatenated, without repeats.
\* It is called with two arrays (activities) and with one (websites).
mergedAndUniqued(arrays) == Uniqued(Flat(arrays))

\* transforms/UniqueSources: the sources without repeats of (id, type).
\* A source is the record [id, type], so equal records are equal (id, type).
uniquedSources(sources) == Uniqued(sources)

(***************************************************************************)
(* mergeSkiAreaProperties, field by field                                  *)
(***************************************************************************)
\* line 42: name: primarySkiArea.name || otherSkiArea.name
mergedName_swapped(primaryProps, otherProps) == Or(otherProps.name, primaryProps.name)
mergedName(primaryProps, otherProps) == Or(primaryProps.name, otherProps.name)

\* line 52: status: primarySkiArea.status || otherSkiArea.status
mergedStatus(primaryProps, otherProps) == Or(primaryProps.status, otherProps.status)

\* lines 43-46: activities: mergedAndUniqued(primary.activities, other.activities)
mergedActivities_primaryOnly(primaryActivities, otherActivities) ==
    primaryActivities
mergedActivities(primaryActivities, otherActivities) ==
    mergedAndUniqued(<<primaryActivities, otherActivities>>)

\* line 47: generated: primarySkiArea.generated && otherSkiArea.generated
mergedGenerated_or(primaryProps, otherProps) ==
    primaryProps.generated \/ otherProps.generated
mergedGenerated(primaryProps, otherProps) ==
    primaryProps.generated /\ otherProps.generated

\* Sources that are concatenated and nothing more.
mergedSources_concatenated(primaryProps, otherProps) ==
    primaryProps.sources \o otherProps.sources

\* lines 49-51: sources: uniquedSources(primary.sources.concat(other.sources))
mergedSources(primaryProps, otherProps) ==
    uniquedSources(primaryProps.sources \o otherProps.sources)

\* line 56: location: null
mergedLocation_kept(primaryProps, otherProps) == primaryProps.location
mergedLocation(primaryProps, otherProps) == Null

\* lines 66-68: every source is OPENSTREETMAP (true of an empty list) and
\* there is a website.
isOpenStreetMapWithWebsites(skiArea) ==
    /\ \A i \in DOMAIN skiArea.sources : skiArea.sources[i].type = OPENSTREETMAP
    /\ Len(skiArea.websites) > 0

\* Array.prototype.filter with the predicate of lines 65-68.
RECURSIVE filterOpenStreetMap(_)
filterOpenStreetMap(skiAreas) ==
    IF skiAreas = <<>> THEN <<>>
    ELSE (IF isOpenStreetMapWithWebsites(Head(skiAreas))
          THEN <<Head(skiAreas)>> ELSE <<>>)
         \o filterOpenStreetMap(Tail(skiAreas))

\* skiAreas.flatMap((skiArea) => skiArea.websites)
RECURSIVE flatMapWebsites(_)
flatMapWebsites(skiAreas) ==
    IF skiAreas = <<>> THEN <<>>
    ELSE Head(skiAreas).websites \o flatMapWebsites(Tail(skiAreas))

\* A mergedWebsites without the fallback branch of lines 74-76.
mergedWebsites_noFallback(skiAreas) ==
    mergedAndUniqued(<<flatMapWebsites(filterOpenStreetMap(skiAreas))>>)

\* lines 60-77: mergedWebsites(...skiAreas)
mergedWebsites(skiAreas) ==
    LET openStreetMapSkiAreasWithWebsites == filterOpenStreetMap(skiAreas)
    IN  IF Len(openStreetMapSkiAreasWithWebsites) > 0
        THEN mergedAndUniqued(<<flatMapWebsites(openStreetMapSkiAreasWithWebsites)>>)
        ELSE mergedAndUniqued(<<flatMapWebsites(skiAreas)>>)

\* lines 36-58
mergeSkiAreaProperties(primaryProps, otherProps) ==
    [ id            |-> primaryProps.id,
      name          |-> mergedName(primaryProps, otherProps),
      activities    |-> mergedActivities(primaryProps.activities, otherProps.activities),
      generated     |-> mergedGenerated(primaryProps, otherProps),
      runConvention |-> primaryProps.runConvention,
      sources       |-> mergedSources(primaryProps, otherProps),
      status        |-> mergedStatus(primaryProps, otherProps),
      type          |-> primaryProps.type,
      websites      |-> mergedWebsites(<<primaryProps, otherProps>>),
      statistics    |-> primaryProps.statistics,
      location      |-> mergedLocation(primaryProps, otherProps) ]

\* A reduce callback that takes the geometry of the duplicate.
reduceCallback_otherGeometry(primary, other) ==
    [ _id        |-> primary._id,
      _key       |-> primary._key,
      id         |-> primary.id,
      geometry   |-> other.geometry,
      isPolygon  |-> primary.isPolygon,
      skiAreas   |-> primary.skiAreas,
      source     |-> primary.source,
      type       |-> primary.type,
      activities |-> mergedActivities(primary.activities, other.activities),
      properties |-> mergeSkiAreaProperties(primary.properties, other.properties) ]

\* lines 14-33: the callback handed to otherSkiAreas.reduce
reduceCallback(primary, other) ==
    [ _id        |-> primary._id,
      _key       |-> primary._key,
      id         |-> primary.id,
      geometry   |-> primary.geometry,
      isPolygon  |-> primary.isPolygon,
      skiAreas   |-> primary.skiAreas,
      source     |-> primary.source,
      type       |-> primary.type,
      activities |-> mergedActivities(primary.activities, other.activities),
      properties |-> mergeSkiAreaProperties(primary.properties, other.properties) ]

\* Array.prototype.reduce(callback, initialValue): a left fold in array order.
RECURSIVE reduce(_, _)
reduce(others, initialValue) ==
    IF others = <<>> THEN initialValue
    ELSE reduce(Tail(others), reduceCallback(initialValue, Head(others)))

\* An empty case that hands back a copy with the location reset, as the fold
\* would.
returnedWhenEmpty_normalised(primary) ==
    [primary EXCEPT !.properties.location = Null]

\* lines 10-12: with no duplicates the primary itself is returned.
returnedWhenEmpty(primary) == primary

\* A merge that folds only the first duplicate.
mergeSkiAreaObjects_firstOnly(primary, others) ==
    IF Len(others) = 0 THEN returnedWhenEmpty(primary)
    ELSE reduceCallback(primary, others[1])

\* lines 6-34: the function as a whole
mergeSkiAreaObjects(primary, others) ==
    IF Len(others) = 0 THEN returnedWhenEmpty(primary)
    ELSE reduce(others, primary)

(***************************************************************************)
(* Inputs of the merge                                                     *)
(***************************************************************************)
Source(id, type) == [id |-> id, type |-> type]

\* Every canonical feature carries at least one source.
SourceLists ==
    { <<Source("1", OPENSTREETMAP)>>,
      <<Source("2", OPENSTREETMAP)>>,
      <<Source("1", SKIMAP_ORG)>>,
      <<Source("1", OPENSTREETMAP), Source("1", SKIMAP_ORG)>> }

WebsiteLists == { <<>>, <<"a.com">>, <<"b.com">> }

ActivityLists == { <<>>, <<"downhill">>, <<"nordic">>, <<"nordic", "downhill">> }

Names == { Null, "", "Alpha", "Beta" }

Statuses == { Null, "operating", "abandoned" }

Locations == { Null, "loc" }

\* The fields a merge derives; `v` gives one value for each.
BaseFields ==
    [ sources    |-> <<Source("1", OPENSTREETMAP)>>,
      websites   |-> <<>>,
      activities |-> <<>>,
      name       |-> Null,
      status     |-> Null,
      generated  |-> TRUE,
      location   |-> Null ]

\* The records SpecMerge draws its inputs from: the base record with every
\* combination of sources and websites, and with every list of activities.
ProvenanceChoices ==
    { [BaseFields EXCEPT !.sources = s, !.websites = w] :
          s \in SourceLists, w \in WebsiteLists }
    \cup { [BaseFields EXCEPT !.activities = a] : a \in ActivityLists }

\* The records SpecMergeScalars draws its inputs from: the base record with
\* every combination of name and status, with either generated flag and with
\* either location.
ScalarChoices ==
    { [BaseFields EXCEPT !.name = n, !.status = s] : n \in Names, s \in Statuses }
    \cup { [BaseFields EXCEPT !.generated = g] : g \in BOOLEAN }
    \cup { [BaseFields EXCEPT !.location = l] : l \in Locations }

\* The base record with every list of sources.
SourceChoices == { [BaseFields EXCEPT !.sources = s] : s \in SourceLists }

\* The SkiAreaObject number `o` of a call: every field a merge only copies
\* carries the number, so that its origin can be told.
SkiAreaObject(o, v) ==
    [ _id        |-> <<"_id", o>>,
      _key       |-> <<"_key", o>>,
      id         |-> <<"id", o>>,
      geometry   |-> <<"geometry", o>>,
      isPolygon  |-> (o % 2 = 0),
      skiAreas   |-> <<"skiAreas", o>>,
      source     |-> <<"source", o>>,
      type       |-> <<"type", o>>,
      activities |-> v.activities,
      properties |->
          [ id            |-> <<"id", o>>,
            name          |-> v.name,
            activities    |-> v.activities,
            generated     |-> v.generated,
            runConvention |-> <<"runConvention", o>>,
            sources       |-> v.sources,
            status        |-> v.status,
            type          |-> <<"type", o>>,
            websites      |-> v.websites,
            statistics    |-> <<"statistics", o>>,
            location      |-> v.location ] ]

(***************************************************************************)
(* addElevation: constants and pure functions (src/unnamed/part_001)       *)
(***************************************************************************)
\* line 4
elevationProfileResolution == 25

\* line 86: 10 minutes in milliseconds
maxRetryTime == 600000

\* line 94: let retryDelay = 1000
InitialRetryDelay == 1000

\* line 132: Math.min(retryDelay * 2, 60000)
MaxRetryDelay == 60000

\* line 112: Math.random() * (10000 - 7000) + 7000 is at least 7000
RandomDelayMin == 7000

\* line 158: the elevation of a coordinate that was given up (NaN); every
\* elevation the service returns is another number.
NaN == -1

Min(a, b) == IF a < b THEN a ELSE b

\* [lng, lat] vertices of the input geometries.
V1 == <<1, 2>>
V2 == <<3, 4>>
Vertices == { V1, V2 }

\* Elevations the remote service may answer with.
Elevations == { 10, 20 }

\* An elevation that a vertex of the input already carries.
AttachedBefore == 30

\* feature.properties.elevationProfile when it is null or absent.
NoProfile == [heights |-> <<>>, resolution |-> 0]

Feature(geometryType, coords, featureType) ==
    [ geometry   |-> [type |-> geometryType, coordinates |-> coords],
      properties |-> [type |-> featureType, elevationProfile |-> NoProfile] ]

FeatureTypes == { "run", "lift" }

\* The line strings of at most MaxVertices vertices.
Lines == UNION { [1..n -> Vertices] : n \in 1..MaxVertices }

\* lines 168-184: the geometry kinds the switch of getCoordinates handles.
geometryImplemented(type) ==
    type \in {"Point", "LineString", "MultiLineString", "Polygon", "MultiPolygon"}

\* lines 168-181: the vertices of a geometry, in order.
flatCoordinates(geometry) ==
    CASE geometry.type = "Point" -> <<geometry.coordinates>>
      [] geometry.type = "LineString" -> geometry.coordinates
      [] geometry.type \in {"MultiLineString", "Polygon"} -> Flat(geometry.coordinates)
      [] geometry.type = "MultiPolygon" -> Flat(Flat(geometry.coordinates))

\* line 187: [coordinate[0], coordinate[1]]
withoutElevation(coordinate) == <<coordinate[1], coordinate[2]>>

\* lines 166-188, for a geometry kind that is implemented: an elevation that
\* was already added to a vertex is removed (line 187).
getCoordinates(f) ==
    LET cs == flatCoordinates(f.geometry)
    IN  [i \in DOMAIN cs |-> withoutElevation(cs[i])]

\* lines 190-224: `points` is what turfLineChunk yields for the line.
getCoordinatesForElevationProfile(f, points) ==
    IF f.properties.type = "lift" THEN <<>>
    ELSE IF f.geometry.type # "LineString" THEN <<>>
    ELSE points

\* lines 18-20: vertices, then profile points, each as [lat, lng].
requestCoordinates(f, points) ==
    LET all == getCoordinates(f) \o getCoordinatesForElevationProfile(f, points)
    IN  [i \in DOMAIN all |-> <<all[i][2], all[i][1]>>]

\* line 91: const cacheKey = `${lat},${lng}`: two numbers joined by a comma,
\* so two keys are equal exactly when both numbers are.
cacheKey(coordinate) == <<"key", coordinate[1], coordinate[2]>>

\* An append without the length check.
addElevationToCoords_always(coords, elevation) == Append(coords, elevation)

\* lines 261-268
addElevationToCoords(coords, elevation) ==
    IF Len(coords) = 3 THEN coords ELSE Append(coords, elevation)

\* lines 226-259: every vertex, in order, gets elevations[i] with i counting
\* the vertices visited so far.
addElevations(geometry, elevs) ==
    LET cs == geometry.coordinates
        before(sets, j) == Len(Flat(SubSeq(sets, 1, j - 1)))
    IN  CASE geometry.type = "Point" ->
                 [geometry EXCEPT !.coordinates = addElevationToCoords(cs, elevs[1])]
          [] geometry.type = "LineString" ->
                 [geometry EXCEPT !.coordinates =
                     [k \in DOMAIN cs |-> addElevationToCoords(cs[k], elevs[k])]]
          [] geometry.type \in {"MultiLineString", "Polygon"} ->
                 [geometry EXCEPT !.coordinates =
                     [j \in DOMAIN cs |->
                         [k \in DOMAIN cs[j] |->
                             addElevationToCoords(cs[j][k], elevs[before(cs, j) + k])]]]
          [] geometry.type = "MultiPolygon" ->
                 [geometry EXCEPT !.coordinates =
                     [p \in DOMAIN cs |->
                         [j \in DOMAIN cs[p] |->
                             [k \in DOMAIN cs[p][j] |->
                                 addElevationToCoords(
                                     cs[p][j][k],
                                     elevs[Len(Flat(Flat(SubSeq(cs, 1, p - 1))))
                                           + before(cs[p], j) + k])]]]]

\* An enrichment that writes the last results, not the first, onto the
\* vertices.
enriched_lastResults(f, elevs) ==
    LET n == Len(getCoordinates(f))
        coordinateElevations == SubSeq(elevs, Len(elevs) - n + 1, Len(elevs))
        profileElevations == SubSeq(elevs, n + 1, Len(elevs))
        profile == IF Len(profileElevations) > 0
                   THEN [heights |-> profileElevations,
                         resolution |-> elevationProfileResolution]
                   ELSE NoProfile
    IN  [ geometry   |-> addElevations(f.geometry, coordinateElevations),
          properties |-> IF f.properties.type = "run"
                         THEN [f.properties EXCEPT !.elevationProfile = profile]
                         ELSE f.properties ]

\* lines 28-45: the feature once all elevations are known.
enriched(f, elevs) ==
    LET n == Len(getCoordinates(f))
        coordinateElevations == SubSeq(elevs, 1, n)
        profileElevations == SubSeq(elevs, n + 1, Len(elevs))
        profile == IF Len(profileElevations) > 0
                   THEN [heights |-> profileElevations,
                         resolution |-> elevationProfileResolution]
                   ELSE NoProfile
    IN  [ geometry   |-> addElevations(f.geometry, coordinateElevations),
          properties |-> IF f.properties.type = "run"
                         THEN [f.properties EXCEPT !.elevationProfile = profile]
                         ELSE f.properties ]

\* Date.now() - startTime after a further wait of d milliseconds. The value is
\* only ever compared with maxRetryTime (line 99), so it is capped just above.
advance(e, d) == Min(e + d, maxRetryTime + 1)

\* A backoff that doubles without a cap.
nextRetryDelay_uncapped(d) == d * 2

\* line 132
nextRetryDelay(d) == Min(d * 2, MaxRetryDelay)

\* A Map that is created once and handed to every call.
newMap_shared(ms) == 1

\* line 85: new Map<string, number>(): an object that was not there before.
newMap(ms) == Len(ms) + 1

\* A cache that is never found to have the key.
cacheHas_never(map, key) == FALSE

\* line 105: elevationCache.has(cacheKey)
cacheHas(map, key) == key \in DOMAIN map

\* A loop that is left without success and pushes nothing.
givenUp_dropped(elevs) == elevs

\* lines 156-159: the loop was left without success; NaN stands for the
\* coordinate's elevation.
givenUp(elevs) == Append(elevs, NaN)

\* What one remote lookup (lines 115-144) can come to.
Responses ==
    { [kind |-> k, value |-> NaN] :
          k \in {"tooManyRequests", "notOk", "notANumber", "threw"} }
    \cup { [kind |-> "number", value |-> v] : v \in Elevations }

\* How long a lookup may take beyond the awaited delays: no time, or so long
\* that the budget is used up (fetch has no timeout).
Latencies == { 0, maxRetryTime + 1 }

(***************************************************************************)
(* prepare: constants and pure functions (src/src/PrepareGeoJSON.ts)       *)
(***************************************************************************)
Categories == { "skiAreas", "runs", "lifts" }

\* The order in which prepare awaits the category pipelines.
Position(c) == CASE c = "skiAreas" -> 1 [] c = "runs" -> 2 [] c = "lifts" -> 3

\* lines 48-50, 76-78, 100-102: where a category's write stream writes.
outputPath(cfg) == IF cfg.clustering THEN "intermediate" ELSE "output"

\* A prepare that goes from the lifts to map formatting whatever the
\* configuration.
nextPhase_unclustered(c, cfg) ==
    CASE c = "skiAreas" -> "runs"
      [] c = "runs" -> "lifts"
      [] c = "lifts" -> "mapFormat"

\* What follows the completion of a category pipeline (lines 55, 83, 107-117).
nextPhase(c, cfg) ==
    CASE c = "skiAreas" -> "runs"
      [] c = "runs" -> "lifts"
      [] c = "lifts" -> IF cfg.clustering THEN "clustering" ELSE "mapFormat"

\* lines 35, 57, 85: the awaited promise rejects and prepare, which has no
\* try/catch, rejects with it.
afterPipelineError_continue(c, cfg) == nextPhase(c, cfg)
afterPipelineError(c, cfg) == "rejected"

NoFile == [path |-> "none", count |-> 0]

\* line 122: the file a map-format stream reads, getPath(paths.output, type).
mapFormatInput(c) == "output"

\* A stage that starts an enrichment for every feature at hand.
elevationConcurrency_unbounded(category) == MaxStageFeatures

\* lines 71 and 95: the second argument of mapAsync in the run and in the
\* lift pipeline.
elevationConcurrency(category) ==
    CASE category = "runs" -> 10
      [] category = "lifts" -> 10

(***************************************************************************)
(* formatRun (transforms/RunFormatter): the tests of src/unnamed/part_000  *)
(* and sections 7 and 8 of the specification                               *)
(***************************************************************************)
\* The tags of a raw run (InputRunProperties); Null stands for a tag that
\* is absent. lifecyclePrefix is the prefix of a tag such as
\* "proposed:piste:type".
Tags(id, pisteType, abandoned, lifecyclePrefix, pisteName, pisteNameEn, name) ==
    [ id              |-> id,
      pisteType       |-> pisteType,
      pisteAbandoned  |-> abandoned,
      lifecyclePrefix |-> lifecyclePrefix,
      pisteName       |-> pisteName,
      pisteNameEn     |-> pisteNameEn,
      name            |-> name ]

NoTags == Tags(Null, Null, Null, Null, Null, Null, Null)

\* The tags that are present among `values`, in order.
RECURSIVE Present(_)
Present(values) ==
    IF values = <<>> THEN <<>>
    ELSE IF Head(values) = Null THEN Present(Tail(values))
    ELSE <<Head(values)>> \o Present(Tail(values))

\* part_000 lines 55-69: the piste names, joined by ", ", come before the
\* plain name. The joined string is kept as the list of its parts; the
\* empty list is a null name.
formattedName(tags) ==
    IF Present(<<tags.pisteName, tags.pisteNameEn>>) # <<>>
    THEN Present(<<tags.pisteName, tags.pisteNameEn>>)
    ELSE Present(<<tags.name>>)

\* part_000 lines 23-53: the properties of a formatted run.
formattedRun(tags) ==
    [ type       |-> "run",
      uses       |-> <<tags.pisteType>>,
      name       |-> formattedName(tags),
      status     |-> "operating",
      sources    |-> <<Source(tags.id, OPENSTREETMAP)>>,
      skiAreas   |-> <<>>,
      difficulty |-> Null,
      gladed     |-> Null,
      grooming   |-> Null,
      lit        |-> Null,
      oneway     |-> Null,
      patrolled  |-> Null,
      ref        |-> Null ]

\* A formatter that looks at piste:type first and formats whatever has one.
formatRun_typeFirst(tags) ==
    IF tags.pisteType # Null THEN <<formattedRun(tags)>> ELSE <<>>

\* part_000 lines 5-21 and 23-53, spec sections 7 and 8: what
\* flatMap(formatRun) yields for a raw feature: nothing when formatRun
\* returns null, the run otherwise.
formatRun(tags) ==
    IF tags.pisteAbandoned = "yes" THEN <<>>
    ELSE IF tags.lifecyclePrefix # Null THEN <<>>
    ELSE IF tags.pisteType = Null THEN <<>>
    ELSE <<formattedRun(tags)>>

(***************************************************************************)
(* The components at rest                                                  *)
(***************************************************************************)
MergeIdle ==
    /\ primarySkiArea = SkiAreaObject(0, BaseFields)
    /\ otherSkiAreas = <<>>
    /\ acc = SkiAreaObject(0, BaseFields)
    /\ idx = 0
    /\ mpc = "idle"

ElevationIdle ==
    /\ featureIn = Feature("Point", V1, "lift")
    /\ feature = Feature("Point", V1, "lift")
    /\ profilePoints = <<>>
    /\ coordinates = <<>>
    /\ elevations = <<>>
    /\ elevationCache = <<>>
    /\ ci = 0
    /\ success = FALSE
    /\ elapsed = 0
    /\ attempts = 0
    /\ retryDelay = InitialRetryDelay
    /\ epc = "idle"

PrepareIdle ==
    /\ config = [clustering |-> FALSE, elevation |-> FALSE]
    /\ ppc = "idle"
    /\ status = [c \in Categories |-> "notStarted"]
    /\ remaining = [c \in Categories |-> 0]
    /\ buffered = [c \in Categories |-> 0]
    /\ written = [c \in Categories |-> NoFile]
    /\ mapStatus = [c \in Categories |-> "notStarted"]
    /\ failed = "none"

AppendIdle ==
    /\ heap = <<>>
    /\ ring = <<>>
    /\ requested = <<>>
    /\ given = <<>>
    /\ visited = 0
    /\ pass = 0
    /\ apc = "idle"

StageIdle ==
    /\ stageCategory = "runs"
    /\ stageConfigured = FALSE
    /\ stageInput = 0
    /\ admitted = 0
    /\ inFlight = {}
    /\ held = {}
    /\ stageOutput = <<>>
    /\ spc = "idle"

FormatIdle ==
    /\ rawRun = NoTags
    /\ formatted = <<>>
    /\ fpc = "idle"

PoolIdle ==
    /\ calls = <<>>
    /\ maps = <<>>
    /\ touched = {}
    /\ answered = {}
    /\ issued = {}

LaterIdle == AppendIdle /\ StageIdle /\ FormatIdle /\ PoolIdle

FirstIdle == MergeIdle /\ ElevationIdle /\ PrepareIdle

(***************************************************************************)
(* mergeSkiAreaObjects as a state machine                                  *)
(***************************************************************************)
\* A call with a primary and up to MaxDups duplicates drawn from `choices`.
MergeCalled(choices) ==
    /\ primarySkiArea \in { SkiAreaObject(0, v) : v \in choices }
    /\ \E n \in 0..MaxDups :
          otherSkiAreas \in
              { [i \in 1..n |-> SkiAreaObject(i, f[i])] : f \in [1..n -> choices] }
    /\ acc = primarySkiArea
    /\ idx = 0
    /\ mpc = "call"

MergeInit ==
    MergeCalled(ProvenanceChoices) /\ ElevationIdle /\ PrepareIdle /\ LaterIdle

MergeScalarsInit ==
    MergeCalled(ScalarChoices) /\ ElevationIdle /\ PrepareIdle /\ LaterIdle

\* lines 10-14: the empty case returns the primary itself; otherwise reduce starts.
MergeCall ==
    /\ mpc = "call"
    /\ mpc' = IF Len(otherSkiAreas) = 0 THEN "returned" ELSE "reduce"
    /\ acc' = IF Len(otherSkiAreas) = 0
              THEN returnedWhenEmpty(primarySkiArea)
              ELSE primarySkiArea
    /\ UNCHANGED <<primarySkiArea, otherSkiAreas, idx, elevationVars, prepareVars, laterVars>>

\* lines 14-33: one call of the reduce callback; reduce returns after the last.
MergeReduceStep ==
    /\ mpc = "reduce"
    /\ idx < Len(otherSkiAreas)
    /\ acc' = reduceCallback(acc, otherSkiAreas[idx + 1])
    /\ idx' = idx + 1
    /\ mpc' = IF idx + 1 = Len(otherSkiAreas) THEN "returned" ELSE "reduce"
    /\ UNCHANGED <<primarySkiArea, otherSkiAreas, elevationVars, prepareVars, laterVars>>

MergeNext == MergeCall \/ MergeReduceStep

SpecMerge == MergeInit /\ [][MergeNext]_vars

SpecMergeScalars == MergeScalarsInit /\ [][MergeNext]_vars

(***************************************************************************)
(* addElevation as a state machine: one call of the enrichment function    *)
(***************************************************************************)
\* The call's argument: a run or a lift with a geometry of any kind, and
\* what the line chunking yields for it.
ElevationCalled ==
    /\ \E t \in FeatureTypes :
          \/ feature = Feature("Point", V1, t)
          \/ \E l \in Lines : feature = Feature("LineString", l, t)
          \/ feature = Feature("MultiLineString", <<<<V1, V2>>, <<V2>>>>, t)
          \/ feature = Feature("Polygon", <<<<V1, V2, V1>>>>, t)
          \/ feature = Feature("MultiPolygon", <<<<<<V1, V2>>>>, <<<<V1>>>>>>, t)
          \/ feature = Feature("GeometryCollection", <<>>, t)
    /\ featureIn = feature
    /\ profilePoints \in
          IF feature.properties.type = "run" /\ feature.geometry.type = "LineString"
          THEN { <<>>, <<feature.geometry.coordinates[1], V2>> }
          ELSE { <<>> }
    /\ coordinates = <<>>
    /\ elevations = <<>>
    /\ elevationCache = <<>>
    /\ ci = 0
    /\ success = FALSE
    /\ elapsed = 0
    /\ attempts = 0
    /\ retryDelay = InitialRetryDelay
    /\ epc = "call"

ElevationInit == ElevationCalled /\ MergeIdle /\ PrepareIdle /\ LaterIdle

\* lines 9-22 and 84-86: getCoordinates runs before the try block, so its
\* throw rejects the promise of the async function; otherwise the request
\* list is built and fetchElevationsWithBrowserHeaders starts.
EnrichCall ==
    /\ epc = "call"
    /\ IF geometryImplemented(feature.geometry.type)
       THEN /\ coordinates' = requestCoordinates(feature, profilePoints)
            /\ epc' = "for"
       ELSE /\ coordinates' = coordinates
            /\ epc' = "rejected"
    /\ elevations' = <<>>
    /\ elevationCache' = <<>>
    /\ ci' = 0
    /\ UNCHANGED <<featureIn, feature, profilePoints, success, elapsed, attempts,
                   retryDelay, mergeVars, prepareVars, laterVars>>

\* lines 88-94: the for loop takes the next coordinate.
ForNext ==
    /\ epc = "for"
    /\ ci < Len(coordinates)
    /\ ci' = ci + 1
    /\ success' = FALSE
    /\ elapsed' = 0
    /\ attempts' = 0
    /\ retryDelay' = InitialRetryDelay
    /\ epc' = "while"
    /\ UNCHANGED <<featureIn, feature, profilePoints, coordinates, elevations,
                   elevationCache, mergeVars, prepareVars, laterVars>>

\* success, startTime, attempts and retryDelay are declared inside the body
\* of the for loop (lines 89-94): they end with the iteration.
EndOfIteration ==
    /\ success' = FALSE
    /\ elapsed' = 0
    /\ attempts' = 0
    /\ retryDelay' = InitialRetryDelay
    /\ epc' = "for"

\* lines 96-113 and 156-159: the top of the while loop, up to the first
\* await. Past the budget the loop is left without success and NaN is pushed;
\* on a cache hit the cached elevation is pushed.
WhileTop ==
    /\ epc = "while"
    /\ LET key == cacheKey(coordinates[ci])
       IN  IF elapsed > maxRetryTime
           THEN /\ elevations' = givenUp(elevations)
                /\ EndOfIteration
           ELSE IF cacheHas(elevationCache, key)
           THEN /\ elevations' = Append(elevations, elevationCache[key])
                /\ EndOfIteration
           ELSE /\ epc' = "delay"
                /\ UNCHANGED <<elevations, success, elapsed, attempts, retryDelay>>
    /\ UNCHANGED <<featureIn, feature, profilePoints, coordinates, elevationCache,
                   ci, mergeVars, prepareVars, laterVars>>

\* lines 112-115: the random delay has passed; the lookup is issued.
DelayDone ==
    /\ epc = "delay"
    /\ elapsed' = advance(elapsed, RandomDelayMin)
    /\ epc' = "fetch"
    /\ UNCHANGED <<featureIn, feature, profilePoints, coordinates, elevations,
                   elevationCache, ci, success, attempts, retryDelay,
                   mergeVars, prepareVars, laterVars>>

\* lines 115-153: the lookup has come to an end.
FetchResponse ==
    /\ epc = "fetch"
    /\ \E response \in Responses, latency \in Latencies :
          CASE response.kind = "tooManyRequests" ->
                   /\ elapsed' = advance(elapsed, latency)
                   /\ epc' = "backoff"
                   /\ UNCHANGED <<elevations, elevationCache, success, attempts,
                                  retryDelay>>
            [] response.kind \in {"notOk", "notANumber", "threw"} ->
                   /\ elapsed' = advance(elapsed, latency)
                   /\ attempts' = attempts + 1
                   /\ epc' = "while"
                   /\ UNCHANGED <<elevations, elevationCache, success, retryDelay>>
            [] response.kind = "number" ->
                   /\ elevationCache' =
                         (cacheKey(coordinates[ci]) :> response.value) @@ elevationCache
                   /\ elevations' = Append(elevations, response.value)
                   /\ EndOfIteration
    /\ UNCHANGED <<featureIn, feature, profilePoints, coordinates, ci,
                   mergeVars, prepareVars, laterVars>>

\* lines 131-134: the backoff wait has passed.
BackoffDone ==
    /\ epc = "backoff"
    /\ elapsed' = advance(elapsed, retryDelay)
    /\ retryDelay' = nextRetryDelay(retryDelay)
    /\ attempts' = attempts + 1
    /\ epc' = "while"
    /\ UNCHANGED <<featureIn, feature, profilePoints, coordinates, elevations,
                   elevationCache, ci, success, mergeVars, prepareVars, laterVars>>

\* lines 162 and 28-45: the loop is over; the elevations are written onto the
\* feature and the promise resolves with it.
EnrichFinish ==
    /\ epc = "for"
    /\ ci = Len(coordinates)
    /\ feature' = enriched(feature, elevations)
    /\ epc' = "resolved"
    /\ UNCHANGED <<featureIn, profilePoints, coordinates, elevations, elevationCache,
                   ci, success, elapsed, attempts, retryDelay, mergeVars, prepareVars, laterVars>>

ElevationNext ==
    \/ EnrichCall
    \/ ForNext
    \/ WhileTop
    \/ DelayDone
    \/ FetchResponse
    \/ BackoffDone
    \/ EnrichFinish

SpecElevation == ElevationInit /\ [][ElevationNext]_vars

\* The calls whose feature is a lift: the request list is the vertex list.
ElevationLiftInit == ElevationInit /\ feature.properties.type = "lift"

\* Every timer fires (lines 113, 131) and every lookup settles, with a
\* response or with an error (line 115); the function is sequential, so at
\* most one step is enabled at a time.
SpecElevationFair ==
    ElevationLiftInit /\ [][ElevationNext]_vars /\ WF_vars(ElevationNext)

(***************************************************************************)
(* prepare as a state machine                                              *)
(***************************************************************************)
PrepareCalled ==
    /\ config \in [clustering : BOOLEAN, elevation : BOOLEAN]
    /\ ppc = "skiAreas"
    /\ status = [c \in Categories |-> "notStarted"]
    /\ remaining \in [Categories -> 0..MaxFeatures]
    /\ buffered = [c \in Categories |-> 0]
    /\ written = [c \in Categories |-> NoFile]
    /\ mapStatus = [c \in Categories |-> "notStarted"]
    /\ failed = "none"

PrepareInit == PrepareCalled /\ MergeIdle /\ ElevationIdle /\ LaterIdle

\* lines 35-53, 57-81, 85-105: the category's stream chain is built and its
\* write stream opened.
PipelineStart(c) ==
    /\ ppc = c
    /\ status[c] = "notStarted"
    /\ status' = [status EXCEPT ![c] = "running"]
    /\ written' = [written EXCEPT ![c] = [path |-> outputPath(config), count |-> 0]]
    /\ UNCHANGED <<config, ppc, remaining, buffered, mapStatus, failed,
                   mergeVars, elevationVars, laterVars>>

\* One raw feature goes through the chain: the formatter keeps or drops it;
\* a kept run is held by the accumulate stage (line 64), any other kept
\* feature reaches the write stream.
PipelineFeature(c) ==
    /\ status[c] = "running"
    /\ remaining[c] > 0
    /\ remaining' = [remaining EXCEPT ![c] = @ - 1]
    /\ \E kept \in 0..1 :
          IF c = "runs"
          THEN /\ buffered' = [buffered EXCEPT ![c] = @ + kept]
               /\ written' = written
          ELSE /\ written' = [written EXCEPT ![c].count = @ + kept]
               /\ buffered' = buffered
    /\ UNCHANGED <<config, ppc, status, mapStatus, failed, mergeVars, elevationVars, laterVars>>

\* The input is drained: the accumulate stage flushes what it has collapsed
\* the runs into, the write stream finishes and the await returns.
PipelineEnd(c) ==
    /\ status[c] = "running"
    /\ remaining[c] = 0
    /\ \E flushed \in (IF buffered[c] = 0 THEN {0} ELSE 1..buffered[c]) :
          written' = [written EXCEPT ![c].count = @ + flushed]
    /\ buffered' = [buffered EXCEPT ![c] = 0]
    /\ status' = [status EXCEPT ![c] = "finished"]
    /\ ppc' = nextPhase(c, config)
    /\ UNCHANGED <<config, remaining, mapStatus, failed, mergeVars, elevationVars, laterVars>>

\* A stream-fatal error in the category's chain: the awaited promise rejects.
PipelineFail(c) ==
    /\ status[c] = "running"
    /\ status' = [status EXCEPT ![c] = "failed"]
    /\ ppc' = afterPipelineError(c, config)
    /\ failed' = c
    /\ UNCHANGED <<config, remaining, buffered, written, mapStatus,
                   mergeVars, elevationVars, laterVars>>

\* lines 107-115: clusterSkiAreas reads the intermediate files and writes the
\* output files.
ClusterDone ==
    /\ ppc = "clustering"
    /\ written' = [c \in Categories |-> [written[c] EXCEPT !.path = "output"]]
    /\ ppc' = "mapFormat"
    /\ UNCHANGED <<config, status, remaining, buffered, mapStatus, failed,
                   mergeVars, elevationVars, laterVars>>

\* lines 109-114: clusterSkiAreas rejects.
ClusterFail ==
    /\ ppc = "clustering"
    /\ ppc' = "rejected"
    /\ failed' = "clustering"
    /\ UNCHANGED <<config, status, remaining, buffered, written, mapStatus,
                   mergeVars, elevationVars, laterVars>>

\* lines 119-128: the three map-format streams are started together.
MapFormatStart ==
    /\ ppc = "mapFormat"
    /\ \A c \in Categories : mapStatus[c] = "notStarted"
    /\ mapStatus' = [c \in Categories |-> "running"]
    /\ UNCHANGED <<config, ppc, status, remaining, buffered, written, failed,
                   mergeVars, elevationVars, laterVars>>

\* A map-format stream finishes (also after Promise.all has rejected).
MapFormatFinish(c) ==
    /\ mapStatus[c] = "running"
    /\ mapStatus' = [mapStatus EXCEPT ![c] = "finished"]
    /\ UNCHANGED <<config, ppc, status, remaining, buffered, written, failed,
                   mergeVars, elevationVars, laterVars>>

\* A map-format stream fails: Promise.all rejects with the first failure.
MapFormatFail(c) ==
    /\ mapStatus[c] = "running"
    /\ mapStatus' = [mapStatus EXCEPT ![c] = "failed"]
    /\ IF ppc = "mapFormat"
       THEN ppc' = "rejected" /\ failed' = "mapFormat"
       ELSE UNCHANGED <<ppc, failed>>
    /\ UNCHANGED <<config, status, remaining, buffered, written,
                   mergeVars, elevationVars, laterVars>>

\* line 130: all three map-format streams have finished.
PrepareDone ==
    /\ ppc = "mapFormat"
    /\ \A c \in Categories : mapStatus[c] = "finished"
    /\ ppc' = "done"
    /\ UNCHANGED <<config, status, remaining, buffered, written, mapStatus, failed,
                   mergeVars, elevationVars, laterVars>>

PrepareNext ==
    \/ \E c \in Categories : PipelineStart(c)
    \/ \E c \in Categories : PipelineFeature(c)
    \/ \E c \in Categories : PipelineEnd(c)
    \/ \E c \in Categories : PipelineFail(c)
    \/ ClusterDone
    \/ ClusterFail
    \/ MapFormatStart
    \/ \E c \in Categories : MapFormatFinish(c)
    \/ \E c \in Categories : MapFormatFail(c)
    \/ PrepareDone

SpecPrepare == PrepareInit /\ [][PrepareNext]_vars

(***************************************************************************)
(* addElevations on a coordinate list whose positions may share an array   *)
(***************************************************************************)
\* What the variables of the other components do in a step of this one.
notAppendVars ==
    <<mergeVars, elevationVars, prepareVars, stageVars, formatVars, poolVars>>

\* A coordinate array as it comes in: without elevation, or with one that
\* was attached before.
IncomingArrays == Vertices \cup { <<1, 2, AttachedBefore>> }

\* The coordinate lists of up to MaxVertices + 1 positions over two arrays.
Rings == UNION { [1..n -> 1..2] : n \in 1..(MaxVertices + 1) }

\* The elevations of a request of n coordinates, as resolved.
Resolved(n) == [1..n -> Elevations]

\* addElevations is entered with one elevation per position of the list
\* (lines 10, 28 and 44).
AddElevationsCalled ==
    /\ heap \in [1..2 -> IncomingArrays]
    /\ ring \in Rings
    /\ requested = [i \in DOMAIN ring |-> withoutElevation(heap[ring[i]])]
    /\ given \in Resolved(Len(ring))
    /\ visited = 0
    /\ pass = 1
    /\ apc = "visiting"

AddElevationsInit ==
    AddElevationsCalled /\ FirstIdle /\ StageIdle /\ FormatIdle /\ PoolIdle

\* lines 235-238, 242-245: forEach hands the next array of the list, by
\* reference, to addElevationToCoords.
VisitVertex ==
    /\ apc = "visiting"
    /\ visited < Len(ring)
    /\ heap' = [heap EXCEPT ![ring[visited + 1]] =
                     addElevationToCoords(@, given[visited + 1])]
    /\ visited' = visited + 1
    /\ UNCHANGED <<ring, requested, given, pass, apc, notAppendVars>>

\* forEach is over; addElevations and the enrichment return.
AddElevationsReturn ==
    /\ apc = "visiting"
    /\ visited = Len(ring)
    /\ apc' = "returned"
    /\ UNCHANGED <<heap, ring, requested, given, visited, pass, notAppendVars>>

\* The feature is handed to the enrichment once more: getCoordinates leaves
\* the elevations out of the request (line 187), the lookups resolve anew and
\* addElevations is entered with the new results.
EnrichAgain ==
    /\ apc = "returned"
    /\ pass < MaxPasses
    /\ requested' = [i \in DOMAIN ring |-> withoutElevation(heap[ring[i]])]
    /\ given' \in Resolved(Len(ring))
    /\ visited' = 0
    /\ pass' = pass + 1
    /\ apc' = "visiting"
    /\ UNCHANGED <<heap, ring, notAppendVars>>

AddElevationsNext == VisitVertex \/ AddElevationsReturn \/ EnrichAgain

SpecAddElevations == AddElevationsInit /\ [][AddElevationsNext]_vars

(***************************************************************************)
(* The elevation stage of the run and lift pipelines: mapAsync(mapper, n)  *)
(***************************************************************************)
notStageVars ==
    <<mergeVars, elevationVars, prepareVars, appendVars, formatVars, poolVars>>

\* lines 65-72, 89-96: the stage is built for a pipeline, with or without
\* an elevation server, and some number of features will reach it.
StageCalled ==
    /\ stageCategory \in {"runs", "lifts"}
    /\ stageConfigured \in BOOLEAN
    /\ stageInput \in 0..MaxStageFeatures
    /\ admitted = 0
    /\ inFlight = {}
    /\ held = {}
    /\ stageOutput = <<>>
    /\ spc = "open"

StageInit == StageCalled /\ FirstIdle /\ AppendIdle /\ FormatIdle /\ PoolIdle

\* The stage takes the next feature while fewer enrichments than its
\* ceiling are under way. With a server the enrichment of the feature is
\* started; without one the mapper is null and the feature is ready at once.
StageAdmit ==
    /\ spc = "open"
    /\ admitted < stageInput
    /\ Cardinality(inFlight) < elevationConcurrency(stageCategory)
    /\ admitted' = admitted + 1
    /\ IF stageConfigured
       THEN inFlight' = inFlight \cup {admitted + 1} /\ held' = held
       ELSE held' = held \cup {admitted + 1} /\ inFlight' = inFlight
    /\ UNCHANGED <<stageCategory, stageConfigured, stageInput, stageOutput, spc,
                   notStageVars>>

\* The enrichment of feature i settles, in any order among those under way.
EnrichmentSettles(i) ==
    /\ i \in inFlight
    /\ inFlight' = inFlight \ {i}
    /\ held' = held \cup {i}
    /\ UNCHANGED <<stageCategory, stageConfigured, stageInput, admitted, stageOutput,
                   spc, notStageVars>>

\* The feature that entered after the last one sent on is ready: it leaves
\* the stage.
StageEmit ==
    /\ (Len(stageOutput) + 1) \in held
    /\ stageOutput' = Append(stageOutput, Len(stageOutput) + 1)
    /\ held' = held \ {Len(stageOutput) + 1}
    /\ UNCHANGED <<stageCategory, stageConfigured, stageInput, admitted, inFlight,
                   spc, notStageVars>>

\* Every feature has left the stage: its output ends.
StageEnd ==
    /\ spc = "open"
    /\ Len(stageOutput) = stageInput
    /\ spc' = "ended"
    /\ UNCHANGED <<stageCategory, stageConfigured, stageInput, admitted, inFlight,
                   held, stageOutput, notStageVars>>

StageNext ==
    \/ StageAdmit
    \/ \E i \in 1..MaxStageFeatures : EnrichmentSettles(i)
    \/ StageEmit
    \/ StageEnd

SpecStage == StageInit /\ [][StageNext]_vars

(***************************************************************************)
(* formatRun as a state machine                                            *)
(***************************************************************************)
notFormatVars ==
    <<mergeVars, elevationVars, prepareVars, appendVars, stageVars, poolVars>>

RawIds == { "way/1", "way/2" }

\* A raw feature with any combination of the tags that decide whether it is
\* a run; `names` are the values its three name tags may have.
FormatCalled(names) ==
    /\ rawRun \in
          { Tags(id, pisteType, abandoned, prefix, pisteName, pisteNameEn, name) :
              id \in RawIds,
              pisteType \in {Null, "downhill", "nordic"},
              abandoned \in {Null, "yes", "no"},
              prefix \in {Null, "proposed", "disused"},
              pisteName \in names, pisteNameEn \in names, name \in names }
    /\ formatted = <<>>
    /\ fpc = "called"

FormatInit ==
    /\ FormatCalled({Null, "Nom", "Name"})
    /\ FirstIdle /\ AppendIdle /\ StageIdle /\ PoolIdle

\* PrepareGeoJSON.ts line 59: flatMap(formatRun) on one raw feature.
FormatRun ==
    /\ fpc = "called"
    /\ formatted' = formatRun(rawRun)
    /\ fpc' = "returned"
    /\ UNCHANGED <<rawRun, notFormatVars>>

FormatNext == FormatRun

SpecFormat == FormatInit /\ [][FormatNext]_vars

\* A raw run is formatted and ski-area records are merged, each on its own.
SourcesInit ==
    /\ FormatCalled({Null})
    /\ MergeCalled(SourceChoices)
    /\ ElevationIdle /\ PrepareIdle /\ AppendIdle /\ StageIdle /\ PoolIdle

SourcesNext == FormatNext \/ MergeNext

SpecSources == SourcesInit /\ [][SourcesNext]_vars

(***************************************************************************)
(* Enrichments under way at the same time: the calls that mapAsync has     *)
(* started, each inside fetchElevationsWithBrowserHeaders                  *)
(***************************************************************************)
notPoolVars ==
    <<mergeVars, elevationVars, prepareVars, appendVars, stageVars, formatVars>>

\* The request lists of the lifts whose line has one vertex, the same
\* vertex twice, or two vertices.
RequestLists ==
    { requestCoordinates(Feature("LineString", l, "lift"), <<>>) :
          l \in { <<V1>>, <<V1, V1>>, <<V1, V2>> } }

\* The locals of a call that is about to enter
\* fetchElevationsWithBrowserHeaders (lines 80-94); elevationCache holds the
\* reference of the call's Map, 0 before it is created.
CallOf(requestList) ==
    [ coordinates    |-> requestList,
      elevations     |-> <<>>,
      elevationCache |-> 0,
      ci             |-> 0,
      elapsed        |-> 0,
      attempts       |-> 0,
      retryDelay     |-> InitialRetryDelay,
      pc             |-> "call" ]

\* mapAsync has started up to MaxEnrichments enrichments.
PoolCalled ==
    /\ \E n \in 1..MaxEnrichments :
          calls \in [1..n -> { CallOf(l) : l \in RequestLists }]
    /\ maps = <<>>
    /\ touched = {}
    /\ answered = {}
    /\ issued = {}

PoolInit == PoolCalled /\ FirstIdle /\ AppendIdle /\ StageIdle /\ FormatIdle

\* lines 89-94: the locals of the for body end with the iteration.
endOfIteration(c) ==
    [c EXCEPT !.elapsed = 0, !.attempts = 0, !.retryDelay = InitialRetryDelay,
              !.pc = "for"]

\* The key of the coordinate that call c is resolving.
keyOf(c) == cacheKey(c.coordinates[c.ci])

\* The code between two awaits (lines 113, 115, 131, 141) runs to its end
\* before any other call continues: call e may take a step when no other
\* call is in the middle of such a stretch.
Turn(e) == \A f \in DOMAIN calls \ {e} : calls[f].pc \notin { "for", "while" }

\* lines 84-86: the call creates its result list and its cache. The calls
\* are numbered in the order in which they are made.
PoolEnter(e) ==
    /\ calls[e].pc = "call"
    /\ \A f \in 1..(e - 1) : calls[f].pc # "call"
    /\ Turn(e)
    /\ LET ref == newMap(maps)
       IN  /\ maps' = IF ref > Len(maps) THEN Append(maps, <<>>) ELSE maps
           /\ calls' = [calls EXCEPT ![e].elevationCache = ref, ![e].pc = "for"]
    /\ UNCHANGED <<touched, answered, issued, notPoolVars>>

\* lines 88-94
PoolForNext(e) ==
    /\ calls[e].pc = "for"
    /\ Turn(e)
    /\ calls[e].ci < Len(calls[e].coordinates)
    /\ calls' = [calls EXCEPT ![e].ci = @ + 1, ![e].elapsed = 0, ![e].attempts = 0,
                              ![e].retryDelay = InitialRetryDelay, ![e].pc = "while"]
    /\ UNCHANGED <<maps, touched, answered, issued, notPoolVars>>

\* lines 96-113 and 156-159
PoolWhileTop(e) ==
    /\ calls[e].pc = "while"
    /\ Turn(e)
    /\ LET c   == calls[e]
           ref == c.elevationCache
       IN  IF c.elapsed > maxRetryTime
           THEN /\ calls' = [calls EXCEPT ![e] =
                                endOfIteration([c EXCEPT !.elevations = givenUp(@)])]
                /\ touched' = touched
           ELSE /\ touched' = touched \cup {<<ref, e>>}
                /\ IF cacheHas(maps[ref], keyOf(c))
                   THEN calls' = [calls EXCEPT ![e] =
                                     endOfIteration([c EXCEPT !.elevations =
                                         Append(@, maps[ref][keyOf(c)])])]
                   ELSE calls' = [calls EXCEPT ![e].pc = "delay"]
    /\ UNCHANGED <<maps, answered, issued, notPoolVars>>

\* lines 112-115: the lookup is issued.
PoolDelayDone(e) ==
    /\ calls[e].pc = "delay"
    /\ Turn(e)
    /\ calls' = [calls EXCEPT ![e].elapsed = advance(@, RandomDelayMin),
                              ![e].pc = "fetch"]
    /\ issued' = issued \cup {<<e, calls[e].ci>>}
    /\ UNCHANGED <<maps, touched, answered, notPoolVars>>

\* lines 115-153: the lookup settles. Where several enrichments are under
\* way, a lookup that fails is one that outlasted the budget; a single
\* enrichment also meets the failures that come back at once.
PoolFetchResponse(e) ==
    /\ calls[e].pc = "fetch"
    /\ Turn(e)
    /\ issued' = issued \ {<<e, calls[e].ci>>}
    /\ LET c   == calls[e]
           ref == c.elevationCache
       IN  \E response \in Responses, latency \in Latencies :
             /\ (response.kind # "number" /\ latency = 0) => Len(calls) = 1
             /\ CASE response.kind = "tooManyRequests" ->
                      /\ calls' = [calls EXCEPT ![e].elapsed = advance(@, latency),
                                                ![e].pc = "backoff"]
                      /\ UNCHANGED <<maps, touched, answered>>
               [] response.kind \in {"notOk", "notANumber", "threw"} ->
                      /\ calls' = [calls EXCEPT ![e].elapsed = advance(@, latency),
                                                ![e].attempts = @ + 1,
                                                ![e].pc = "while"]
                      /\ UNCHANGED <<maps, touched, answered>>
               [] response.kind = "number" ->
                      /\ maps' = [maps EXCEPT ![ref] =
                                      (keyOf(c) :> response.value) @@ @]
                      /\ touched' = touched \cup {<<ref, e>>}
                      /\ answered' = answered \cup {<<e, keyOf(c), response.value>>}
                      /\ calls' = [calls EXCEPT ![e] =
                                      endOfIteration([c EXCEPT !.elevations =
                                          Append(@, response.value)])]
    /\ UNCHANGED notPoolVars

\* lines 131-134
PoolBackoffDone(e) ==
    /\ calls[e].pc = "backoff"
    /\ Turn(e)
    /\ calls' = [calls EXCEPT ![e].elapsed = advance(@, calls[e].retryDelay),
                              ![e].retryDelay = nextRetryDelay(@),
                              ![e].attempts = @ + 1,
                              ![e].pc = "while"]
    /\ UNCHANGED <<maps, touched, answered, issued, notPoolVars>>

\* line 162: return elevations
PoolReturn(e) ==
    /\ calls[e].pc = "for"
    /\ Turn(e)
    /\ calls[e].ci = Len(calls[e].coordinates)
    /\ calls' = [calls EXCEPT ![e].pc = "resolved"]
    /\ UNCHANGED <<maps, touched, answered, issued, notPoolVars>>

PoolNext ==
    \E e \in DOMAIN calls :
        \/ PoolEnter(e)
        \/ PoolForNext(e)
        \/ PoolWhileTop(e)
        \/ PoolDelayDone(e)
        \/ PoolFetchResponse(e)
        \/ PoolBackoffDone(e)
        \/ PoolReturn(e)

SpecPool == PoolInit /\ [][PoolNext]_vars

(***************************************************************************)
(* Properties of mergeSkiAreaObjects                                       *)
(***************************************************************************)
\* The records handed to the call: the primary, then the duplicates in order.
Inputs == <<primarySkiArea>> \o otherSkiAreas

Returned == mpc = "returned"

\* The call has returned from a fold over at least one duplicate.
Folded == Returned /\ Len(otherSkiAreas) >= 1

NoRepeats(s) == \A i, j \in DOMAIN s : s[i] = s[j] => i = j

AllOpenStreetMap(props) ==
    \A i \in DOMAIN props.sources : props.sources[i].type = OPENSTREETMAP

WebsitesOf(I) == UNION { SetOf(Inputs[i].properties.websites) : i \in I }

ActivitiesOf(I) == UNION { SetOf(Inputs[i].activities) : i \in I }

SourcesOf(I) == UNION { SetOf(Inputs[i].properties.sources) : i \in I }

\* The input records that are purely OPENSTREETMAP-sourced and have a website.
OpenStreetMapInputs ==
    { i \in DOMAIN Inputs :
        /\ AllOpenStreetMap(Inputs[i].properties)
        /\ Len(Inputs[i].properties.websites) > 0 }

\* The first truthy value of a list, null when there is none.
RECURSIVE FirstTruthy(_)
FirstTruthy(values) ==
    IF values = <<>> THEN Null
    ELSE IF Truthy(Head(values)) THEN Head(values)
    ELSE FirstTruthy(Tail(values))

\* The merge of the inputs taken in the order p[1], p[2], ...
MergePermuted(p) ==
    LET q == [i \in DOMAIN Inputs |-> Inputs[p[i]]]
    IN  mergeSkiAreaObjects(Head(q), Tail(q))

\* C3 (as claimed): after a merge with at least one duplicate the websites
\* are the union, without repeats, of the websites of the original inputs
\* that are purely OPENSTREETMAP-sourced and have a website, and the union
\* over all inputs only when there is no such input.
C3_WebsitesFromOriginalInputs ==
    Folded =>
        /\ NoRepeats(acc.properties.websites)
        /\ SetOf(acc.properties.websites) =
              IF OpenStreetMapInputs # {}
              THEN WebsitesOf(OpenStreetMapInputs)
              ELSE WebsitesOf(DOMAIN Inputs)

\* The three groupings of a merge of A = primary, B and C = the duplicates.
LeftNested == mergeSkiAreaObjects(
                  mergeSkiAreaObjects(primarySkiArea, <<otherSkiAreas[1]>>),
                  <<otherSkiAreas[2]>>)
Flat3 == mergeSkiAreaObjects(primarySkiArea, <<otherSkiAreas[1], otherSkiAreas[2]>>)
RightNested == mergeSkiAreaObjects(
                   primarySkiArea,
                   <<mergeSkiAreaObjects(otherSkiAreas[1], <<otherSkiAreas[2]>>)>>)

SameSets(x, y, field) ==
    CASE field = "activities" ->
             /\ SetOf(x.activities) = SetOf(y.activities)
             /\ SetOf(x.properties.activities) = SetOf(y.properties.activities)
      [] field = "sources" ->
             SetOf(x.properties.sources) = SetOf(y.properties.sources)
      [] field = "websites" ->
             SetOf(x.properties.websites) = SetOf(y.properties.websites)

\* C4 (as claimed): merge(merge(A,[B]),[C]), merge(A,[B,C]) and
\* merge(A,[merge(B,[C])]) have the same sets of activities, sources and
\* websites.
C4_AssociativeInAllThree ==
    (Returned /\ Len(otherSkiAreas) = 2) =>
        \A field \in {"activities", "sources", "websites"} :
            /\ SameSets(LeftNested, Flat3, field)
            /\ SameSets(Flat3, RightNested, field)

\* C4 (amended): the three groupings have the same sets of activities and of
\* sources; merge(merge(A,[B]),[C]) and merge(A,[B,C]), which the fold
\* returns, also have the same websites.
C4_AssociativeActivitiesSources ==
    (Returned /\ Len(otherSkiAreas) = 2) =>
        /\ acc = Flat3
        /\ \A field \in {"activities", "sources"} :
              /\ SameSets(LeftNested, Flat3, field)
              /\ SameSets(Flat3, RightNested, field)
        /\ SameSets(LeftNested, Flat3, "websites")

\* C4 witness: three records with different activities, sources and
\* websites have been merged.
C4_Witness ==
    /\ Returned /\ Len(otherSkiAreas) = 2
    /\ Cardinality(SetOf(acc.properties.sources)) = 3
    /\ otherSkiAreas[1].properties.websites # <<>>
    /\ otherSkiAreas[2].properties.websites # <<>>
    /\ otherSkiAreas[1].properties.websites # otherSkiAreas[2].properties.websites

\* C5: when no input record is purely OPENSTREETMAP-sourced, the websites of
\* the result are the union, without repeats, of the websites of all inputs.
C5_WebsiteFallback ==
    (Folded /\ \A i \in DOMAIN Inputs : ~AllOpenStreetMap(Inputs[i].properties)) =>
        /\ NoRepeats(acc.properties.websites)
        /\ SetOf(acc.properties.websites) = WebsitesOf(DOMAIN Inputs)

\* C5 witness: two duplicates folded, no input purely OPENSTREETMAP-sourced,
\* and two different websites collected from different inputs.
C5_Witness ==
    /\ Folded /\ Len(otherSkiAreas) = 2
    /\ \A i \in DOMAIN Inputs : ~AllOpenStreetMap(Inputs[i].properties)
    /\ primarySkiArea.properties.websites = <<>>
    /\ Cardinality(SetOf(acc.properties.websites)) = 2

\* C6: the name of the result is the first non-empty name and its status the
\* first set status of primary, d1, ..., dn (empty, resp. null, when there is
\* none); the order of the inputs matters to neither unless two inputs carry
\* different non-empty values.
C6_FirstNonEmptyWins ==
    Returned =>
        LET names    == [i \in DOMAIN Inputs |-> Inputs[i].properties.name]
            statuses == [i \in DOMAIN Inputs |-> Inputs[i].properties.status]
            set(vs)  == { v \in SetOf(vs) : Truthy(v) }
        IN  /\ IF set(names) # {}
               THEN acc.properties.name = FirstTruthy(names)
               ELSE ~Truthy(acc.properties.name)
            /\ acc.properties.status = FirstTruthy(statuses)
            /\ \A p \in Permutations(DOMAIN Inputs) :
                  LET m == MergePermuted(p).properties
                  IN  /\ Cardinality(set(names)) = 1 => m.name = acc.properties.name
                      /\ Cardinality(set(names)) = 0 => ~Truthy(m.name)
                      /\ Cardinality(set(statuses)) <= 1 => m.status = acc.properties.status

\* C6 witness: a primary with neither name nor status, and a later duplicate
\* that supplies one of them.
C6_Witness ==
    /\ Folded /\ Len(otherSkiAreas) = 2
    /\ ~Truthy(primarySkiArea.properties.name)
    /\ ~Truthy(primarySkiArea.properties.status)
    /\ ~Truthy(otherSkiAreas[1].properties.name)
    /\ otherSkiAreas[1].properties.status = "operating"
    /\ otherSkiAreas[2].properties.name = "Beta"
    /\ acc.properties.name = "Beta"
    /\ acc.properties.status = "operating"

\* C7: after a merge with at least one duplicate the activities of the
\* object and of its properties are, as sets, the union of the activities of
\* all inputs, and every order of the duplicates gives the same sets.
C7_ActivitiesUnion ==
    Folded =>
        /\ SetOf(acc.activities) = ActivitiesOf(DOMAIN Inputs)
        /\ SetOf(acc.properties.activities) =
              UNION { SetOf(Inputs[i].properties.activities) : i \in DOMAIN Inputs }
        /\ \A p \in Permutations(DOMAIN Inputs) :
              p[1] = 1 =>
                  LET m == MergePermuted(p)
                  IN  /\ SetOf(m.activities) = SetOf(acc.activities)
                      /\ SetOf(m.properties.activities) =
                            SetOf(acc.properties.activities)

\* C7 witness: the activities of the result come from two duplicates.
C7_Witness ==
    /\ Folded /\ Len(otherSkiAreas) = 2
    /\ primarySkiArea.activities = <<>>
    /\ otherSkiAreas[1].activities = <<"downhill">>
    /\ otherSkiAreas[2].activities = <<"nordic", "downhill">>
    /\ acc.activities = <<"downhill", "nordic">>
    /\ acc.properties.activities = <<"downhill", "nordic">>

\* The AND of the generated flags of the first k inputs.
GeneratedAnd(k) == \A i \in 1..k : Inputs[i].properties.generated

\* C8: the generated flag of the result is the AND of the flags of the
\* primary and of every duplicate, and no step of the fold takes it from
\* false to true.
C8_GeneratedAndFold ==
    /\ [](Returned => (acc.properties.generated = GeneratedAnd(Len(Inputs))))
    /\ [][~acc.properties.generated => ~acc'.properties.generated]_vars

\* C8 witness: the flag went to false at the first duplicate and stayed
\* false over a generated second duplicate.
C8_Witness ==
    /\ Folded /\ Len(otherSkiAreas) = 2
    /\ primarySkiArea.properties.generated
    /\ ~otherSkiAreas[1].properties.generated
    /\ otherSkiAreas[2].properties.generated
    /\ ~acc.properties.generated

\* C9 (as claimed): every object a merge returns has its location unset.
C9_LocationAlwaysUnset == Returned => acc.properties.location = Null

\* C9 (amended): an object returned by a merge with at least one duplicate
\* has its location unset; a merge with no duplicate returns the primary,
\* location included.
C9_LocationUnsetAfterFold ==
    Returned =>
        IF Len(otherSkiAreas) >= 1
        THEN acc.properties.location = Null
        ELSE acc = primarySkiArea

\* C9 witness: a fold whose primary carried a location.
C9_Witness ==
    /\ Folded
    /\ primarySkiArea.properties.location # Null
    /\ acc.properties.location = Null

\* The fields a merge only copies.
IdentityOf(x) ==
    <<x._id, x._key, x.id, x.geometry, x.isPolygon, x.skiAreas, x.source, x.type,
      x.properties.id, x.properties.type,
      x.properties.runConvention, x.properties.statistics>>

\* C10: at every step of a fold and in its result, id, key, geometry,
\* isPolygon, skiAreas, source, type, runConvention and statistics are those
\* of the original primary.
C10_IdentityFromPrimary == IdentityOf(acc) = IdentityOf(primarySkiArea)

\* C10 witness: two duplicates, each with identity fields of its own, have
\* been folded.
C10_Witness ==
    /\ Folded /\ Len(otherSkiAreas) = 2
    /\ acc # primarySkiArea
    /\ \A i \in 1..2 : \A k \in 1..12 :
          k # 5 => IdentityOf(otherSkiAreas[i])[k] # IdentityOf(primarySkiArea)[k]

\* C11: a merge with an empty list of duplicates returns the primary with
\* every field unchanged, whatever the primary carries.
C11_MergeIdentity ==
    (Returned /\ Len(otherSkiAreas) = 0) =>
        /\ acc = primarySkiArea
        /\ \A field \in DOMAIN primarySkiArea.properties :
              acc.properties[field] = primarySkiArea.properties[field]

\* C11 witness: a merge without duplicates has returned a primary that
\* carries a location.
C11_Witness ==
    /\ Returned
    /\ otherSkiAreas = <<>>
    /\ primarySkiArea.properties.location = "loc"
    /\ acc.properties.location = "loc"

(***************************************************************************)
(* Properties of addElevation                                              *)
(***************************************************************************)
\* C1 (as claimed): the promise returned by the enrichment function never
\* rejects, whatever the geometry kind of the feature and whatever the
\* remote lookups come to.
C1_NeverRejects == epc # "rejected"

\* The function is inside the while loop of coordinates[ci].
InLookup == epc \in {"while", "delay", "fetch", "backoff"}

\* The budget check of line 99 is about to fire for coordinates[ci].
BudgetExhausted == epc = "while" /\ elapsed > maxRetryTime

\* Entry i of the result belongs to coordinates[i]: it is NaN or the
\* elevation stored for that coordinate by its first successful lookup.
AnswersCoordinate(i) ==
    \/ elevations[i] = NaN
    \/ /\ cacheKey(coordinates[i]) \in DOMAIN elevationCache
       /\ elevations[i] = elevationCache[cacheKey(coordinates[i])]

\* C12: a lookup whose budget is exhausted leads to NaN as the elevation of
\* its coordinate, and that by its very next step, which leaves the loop
\* for the next coordinate; every lookup comes to an end, since the clock
\* advances with every delay, and the call resolves (a rejection can only
\* come from the call itself, never from a lookup); the result has one
\* entry per requested coordinate, in request order.
C12_ExhaustedBudgetGivesSentinel ==
    /\ BudgetExhausted ~>
        (epc = "for" /\ ci >= 1 /\ Len(elevations) = ci /\ elevations[ci] = NaN)
    /\ [][BudgetExhausted =>
            /\ elevations' = Append(elevations, NaN)
            /\ ci' = ci
            /\ epc' = "for"]_vars
    /\ (InLookup \/ epc = "for") ~> (epc = "resolved")
    /\ [][epc' = "rejected" => epc = "call"]_vars
    /\ [](InLookup => Len(elevations) = ci - 1)
    /\ [](epc = "resolved" =>
            /\ Len(elevations) = Len(coordinates)
            /\ \A i \in DOMAIN elevations : AnswersCoordinate(i))

\* C12 witness: the call has resolved with NaN for a coordinate whose budget
\* ran out, followed by the elevation of a later coordinate.
C12_Witness ==
    /\ epc = "resolved"
    /\ Len(elevations) >= 2
    /\ elevations[1] = NaN
    /\ elevations[2] \in Elevations

\* The call was handed a LineString whose vertices have two components.
PlainLineString ==
    /\ featureIn.geometry.type = "LineString"
    /\ \A i \in DOMAIN featureIn.geometry.coordinates :
          Len(featureIn.geometry.coordinates[i]) = 2

\* C13: once a LineString of N two-component vertices is enriched, its
\* geometry has the same N vertices in the same order, each with three
\* components, and vertex i carries the elevation resolved for request
\* position i, which is the position of that vertex; the results after the
\* first N are the profile's and are written onto no vertex.
C13_VertexCountAndOrder ==
    (epc = "resolved" /\ PlainLineString) =>
        LET cin  == featureIn.geometry.coordinates
            cout == feature.geometry.coordinates
            N    == Len(cin)
        IN  /\ feature.geometry.type = "LineString"
            /\ Len(cout) = N
            /\ Len(elevations) = N + Len(profilePoints)
            /\ \A i \in 1..N :
                  /\ coordinates[i] = <<cin[i][2], cin[i][1]>>
                  /\ cout[i] = <<cin[i][1], cin[i][2], elevations[i]>>
            /\ feature.properties.elevationProfile.heights =
                  SubSeq(elevations, N + 1, Len(elevations))

\* C13 witness: a run of two vertices with a profile has resolved, and the
\* results of the profile differ from those of the vertices.
C13_Witness ==
    /\ epc = "resolved" /\ PlainLineString
    /\ Len(featureIn.geometry.coordinates) = 2
    /\ elevations = <<NaN, 20, 10, 20>>
    /\ feature.geometry.coordinates[1][3] = NaN
    /\ feature.geometry.coordinates[2][3] = 20

\* C14: appending an elevation to an array of three components leaves it as
\* it is; hence no array ever has more than three components and no step
\* changes an array that has three, neither when a list visits the same
\* array at two positions nor when the feature is enriched a second time;
\* and the request of a second enrichment is made of two-component
\* coordinates again.
C14_AppendIdempotent ==
    /\ [](\A r \in DOMAIN heap :
            /\ Len(heap[r]) <= 3
            /\ Len(heap[r]) = 3 =>
                  \A e \in Elevations \cup {NaN} :
                      addElevationToCoords(heap[r], e) = heap[r])
    /\ [][\A r \in DOMAIN heap :
             Len(heap[r]) = 3 => heap'[r] = heap[r]]_vars
    /\ [](\A i \in DOMAIN requested : Len(requested[i]) = 2)

\* C14 witness: a list that visits one array at its first and last position
\* was enriched with 10 everywhere and then again with 20 everywhere, and
\* both arrays still carry 10.
C14_Witness ==
    /\ apc = "returned" /\ pass = 2
    /\ ring = <<1, 2, 1>>
    /\ given = <<20, 20, 20>>
    /\ heap[1] = <<1, 2, 10>>
    /\ heap[2] = <<3, 4, 10>>

(***************************************************************************)
(* Properties of formatRun and of the sources of canonical features        *)
(***************************************************************************)
\* C16: a formatted run has exactly one source, its raw id as an
\* openstreetmap source; a merge of records that each have at least one
\* source returns a record whose sources are those of all inputs, at least
\* one, with no two entries of the same id and type; and so at every step
\* of the fold.
C16_AtLeastOneSource ==
    /\ \A i \in DOMAIN formatted :
          formatted[i].sources = <<Source(rawRun.id, OPENSTREETMAP)>>
    /\ mpc \in {"reduce", "returned"} =>
          /\ Len(acc.properties.sources) >= 1
          /\ NoRepeats(acc.properties.sources)
          /\ \A i, j \in DOMAIN acc.properties.sources :
                (/\ acc.properties.sources[i].id = acc.properties.sources[j].id
                 /\ acc.properties.sources[i].type = acc.properties.sources[j].type)
                    => i = j
    /\ Returned => SetOf(acc.properties.sources) = SourcesOf(DOMAIN Inputs)

\* C16 witness: a run was formatted, and a merge of three records, the
\* second of which repeats a source of the first, has returned three
\* sources.
C16_Witness ==
    /\ fpc = "returned" /\ Len(formatted) = 1
    /\ Folded /\ Len(otherSkiAreas) = 2
    /\ Len(primarySkiArea.properties.sources) = 2
    /\ otherSkiAreas[1].properties.sources = <<Source("1", SKIMAP_ORG)>>
    /\ otherSkiAreas[2].properties.sources = <<Source("2", OPENSTREETMAP)>>
    /\ Len(acc.properties.sources) = 3

\* The raw feature is tagged piste:abandoned=yes or has a piste tag with a
\* lifecycle prefix.
AbandonedOrPrefixed ==
    rawRun.pisteAbandoned = "yes" \/ rawRun.lifecyclePrefix # Null

\* C17: for a raw feature tagged piste:abandoned=yes or with a
\* lifecycle-prefixed piste tag, formatRun returns and yields no feature,
\* whatever the other tags are; what it yields otherwise is at most one run.
C17_AbandonedAndPrefixedDropped ==
    /\ fpc \in {"called", "returned"}
    /\ (fpc = "returned" /\ AbandonedOrPrefixed) => formatted = <<>>
    /\ Len(formatted) <= 1

\* C17 witness: a feature with piste:type=downhill and a proposed: tag was
\* dropped.
C17_Witness ==
    /\ fpc = "returned"
    /\ rawRun.pisteType = "downhill"
    /\ rawRun.pisteAbandoned = Null
    /\ rawRun.lifecyclePrefix = "proposed"
    /\ rawRun.pisteName = "Nom"
    /\ formatted = <<>>

(***************************************************************************)
(* Properties of the elevation stage                                       *)
(***************************************************************************)
\* C15: never more than 10 enrichments are in flight in the elevation stage
\* of the run or lift pipeline, and the features leave the stage in the
\* order they entered it: the i-th to leave is the i-th that entered, and
\* once the stage has ended all of them have left.
C15_CeilingAndOrder ==
    /\ Cardinality(inFlight) <= 10
    /\ \A i \in DOMAIN stageOutput : stageOutput[i] = i
    /\ Len(stageOutput) <= admitted
    /\ spc = "ended" => Len(stageOutput) = stageInput

\* C15 witness: ten enrichments are in flight, a twelfth feature has entered
\* only after the first left, and the third is ready before the second.
C15_Witness ==
    /\ stageOutput = <<1>>
    /\ admitted = 12
    /\ Cardinality(inFlight) = 10
    /\ 2 \in inFlight
    /\ 3 \in held

\* C18: the backoff interval of a lookup is 1000 ms when the lookup of a
\* coordinate starts, lies between 1000 and 60000 ms throughout, and changes
\* inside a lookup only when a backoff wait (which follows a 429 response,
\* and nothing else) ends: it is then doubled, up to 60000; a lookup that
\* ends in any other failure goes back to the top of the retry loop with one
\* more attempt counted and the interval as it was.
C18_BackoffInterval ==
    /\ [](InitialRetryDelay <= retryDelay /\ retryDelay <= 60000)
    /\ [][(epc = "for" /\ epc' = "while") =>
            (ci' = ci + 1 /\ retryDelay' = 1000 /\ attempts' = 0)]_vars
    /\ [][(InLookup /\ InLookup') =>
            /\ ci' = ci
            /\ retryDelay' >= retryDelay
            /\ IF epc = "backoff"
               THEN /\ retryDelay' = Min(2 * retryDelay, 60000)
                    /\ attempts' = attempts + 1
                    /\ epc' = "while"
               ELSE retryDelay' = retryDelay]_vars
    /\ [][epc' = "backoff" => epc = "fetch"]_vars
    /\ [][(epc = "fetch" /\ epc' = "while") =>
            (attempts' = attempts + 1 /\ retryDelay' = retryDelay)]_vars
    /\ [][epc = "fetch" => epc' \in {"backoff", "while", "for"}]_vars

\* C18 witness: in the lookup of the second coordinate the interval has
\* reached 60000 ms after six backoff waits, and one other failure has been
\* counted.
C18_Witness ==
    /\ epc = "while"
    /\ ci = 2
    /\ retryDelay = 60000
    /\ attempts = 7

(***************************************************************************)
(* Properties of prepare                                                   *)
(***************************************************************************)
\* prepare has settled and no stream it started is still running.
PrepareTerminated ==
    /\ ppc \in {"done", "rejected"}
    /\ \A c \in Categories : status[c] # "running" /\ mapStatus[c] # "running"

\* C2 (as claimed): when a category pipeline has failed, the other two
\* category pipelines have, by the end of the execution, run to completion
\* and written their output.
C2_OtherPipelinesComplete ==
    \A c \in Categories :
        (PrepareTerminated /\ status[c] = "failed") =>
            \A d \in Categories \ {c} :
                status[d] = "finished" /\ written[d].path # "none"

\* C2 (amended): a failed category pipeline makes prepare reject with that
\* failure; the categories before it (ski areas, runs, lifts) have finished
\* and written their output, the categories after it are never started and
\* nothing is written for them, and no map-format stream is started.
C2_FailureAbortsPrepare ==
    \A c \in Categories :
        status[c] = "failed" =>
            /\ ppc = "rejected"
            /\ failed = c
            /\ \A d \in Categories :
                  /\ Position(d) < Position(c) =>
                        /\ status[d] = "finished"
                        /\ written[d].path = outputPath(config)
                  /\ Position(d) > Position(c) =>
                        /\ status[d] = "notStarted"
                        /\ written[d] = NoFile
                  /\ mapStatus[d] = "notStarted"

\* C2 witness: the runs pipeline failed after the ski areas were written and
\* with lifts still to be read.
C2_Witness ==
    /\ status["runs"] = "failed"
    /\ written["skiAreas"].count > 0
    /\ remaining["lifts"] > 0
    /\ status["lifts"] = "notStarted"
    /\ ppc = "rejected"

\* The positions of call e that have been resolved or given up.
Settled(e) == 1..Len(calls[e].elevations)

\* The key of position k of call e.
KeyAt(e, k) == cacheKey(calls[e].coordinates[k])

\* The cache of call e, empty before the call has created it.
CacheOf(e) ==
    IF calls[e].elevationCache = 0 THEN <<>> ELSE maps[calls[e].elevationCache]

\* What holds of the caches in every state.
CacheState ==
    \A e \in DOMAIN calls :
        \* a lookup is in flight only for a key that is not in the cache
        /\ \A k \in DOMAIN calls[e].coordinates :
              <<e, k>> \in issued => KeyAt(e, k) \notin DOMAIN CacheOf(e)
        \* the cache holds exactly the keys of the positions that resolved to
        \* a number, never the sentinel, and every such position carries the
        \* value the cache holds for its key
        /\ DOMAIN CacheOf(e) =
              { KeyAt(e, k) : k \in { j \in Settled(e) : calls[e].elevations[j] # NaN } }
        /\ \A k \in Settled(e) :
              calls[e].elevations[k] # NaN =>
                  CacheOf(e)[KeyAt(e, k)] = calls[e].elevations[k]
        /\ \A key \in DOMAIN CacheOf(e) :
              /\ CacheOf(e)[key] \in Elevations
              /\ <<e, key, CacheOf(e)[key]>> \in answered
        \* no two calls hold the same cache
        /\ \A f \in DOMAIN calls \ {e} :
              calls[e].elevationCache # 0 =>
                  calls[e].elevationCache # calls[f].elevationCache

\* What holds of the caches in every step.
CacheStep ==
    /\ \A r \in DOMAIN maps :
          /\ r \in DOMAIN maps'
          /\ \A key \in DOMAIN maps[r] :
                key \in DOMAIN maps'[r] /\ maps'[r][key] = maps[r][key]
    /\ \A e \in DOMAIN calls :
          LET c == calls[e]
              d == calls'[e]
          IN  /\ (c.pc = "while" /\ d # c /\ c.elapsed <= maxRetryTime) =>
                    IF keyOf(c) \in DOMAIN CacheOf(e)
                    THEN /\ d.elevations = Append(c.elevations, CacheOf(e)[keyOf(c)])
                         /\ issued' = issued
                    ELSE d.pc = "delay"
              /\ (c.pc = "for" /\ d.pc = "while") =>
                    /\ d.elapsed = 0
                    /\ d.attempts = 0
                    /\ d.retryDelay = InitialRetryDelay

\* C19: within one call no lookup is issued for a coordinate whose key is in
\* the cache, and a cache hit gives the value that the first successful
\* lookup of the coordinate stored, which is never replaced; only successful
\* lookups are stored, so that a coordinate that was given up is looked up
\* again, with a new budget, when it recurs; and no call holds the cache of
\* another call.
C19_CachePerCall == [] CacheState /\ [][CacheStep]_vars

\* C19 witness: one call met the same coordinate twice, gave it up the first
\* time and resolved it by a second lookup, and another call resolved the
\* same coordinate once and answered its recurrence from its cache.
C19_Witness ==
    \E e, f \in DOMAIN calls :
        /\ e # f
        /\ Len(calls[e].coordinates) = 2
        /\ KeyAt(e, 1) = KeyAt(e, 2)
        /\ calls[e].elevations = <<NaN, 10>>
        /\ calls[f].coordinates = calls[e].coordinates
        /\ calls[f].elevations = <<20, 20>>
        /\ calls[e].pc = "resolved"
        /\ calls[f].pc = "resolved"

\* What holds of the enrichments under way in every state.
PoolState ==
    /\ \A e \in DOMAIN calls :
          \* one lookup at a time, and none before the positions in front of
          \* it are settled
          /\ Cardinality({ k \in DOMAIN calls[e].coordinates : <<e, k>> \in issued }) <= 1
          /\ \A k \in DOMAIN calls[e].coordinates :
                <<e, k>> \in issued => Len(calls[e].elevations) = k - 1
          \* every number of the result was answered to this enrichment for
          \* the key of its position
          /\ \A k \in Settled(e) :
                calls[e].elevations[k] # NaN =>
                    <<e, KeyAt(e, k), calls[e].elevations[k]>> \in answered
    \* no cache is read or written by two enrichments
    /\ \A t, u \in touched : t[1] = u[1] => t[2] = u[2]

\* What holds of the enrichments under way in every step.
PoolStep ==
    \A e \in DOMAIN calls :
        calls'[e] # calls[e] =>
            \A f \in DOMAIN calls \ {e} :
                /\ calls'[f] = calls[f]
                /\ calls[f].elevationCache # 0 =>
                      maps'[calls[f].elevationCache] = maps[calls[f].elevationCache]

\* C20: within one enrichment at most one lookup is in flight, and the lookup
\* of a coordinate is not issued before the coordinates in front of it are
\* resolved or given up; with several enrichments under way no cache is read
\* or written by two of them, a step of one enrichment changes neither the
\* locals nor the cache of another, and every number in a result was
\* answered to that enrichment itself.
C20_OneInFlightAndIsolated == [] PoolState /\ [][PoolStep]_vars

\* C20 witness: two enrichments have a lookup of the same coordinate in
\* flight at once, after the first of them has stored an answer in its cache
\* and the second has read its own.
C20_Witness ==
    \E e, f \in DOMAIN calls :
        /\ e # f
        /\ <<e, 2>> \in issued
        /\ <<f, 1>> \in issued
        /\ KeyAt(f, 1) \in DOMAIN CacheOf(e)
        /\ <<calls[e].elevationCache, e>> \in touched
        /\ <<calls[f].elevationCache, f>> \in touched

\* The category pipelines have all finished.
AllWritten == \A c \in Categories : status[c] = "finished"

\* The path a category pipeline writes to under the configuration at hand.
ConfiguredPath == IF config.clustering THEN "intermediate" ELSE "output"

\* What holds of the phases of prepare in every state.
PhaseState ==
    \* a category pipeline is started only after the one before it finished
    /\ \A c, d \in Categories :
          (Position(d) < Position(c) /\ status[c] # "notStarted") =>
              status[d] = "finished"
    \* clustering only when configured, and after the three outputs
    /\ ppc = "clustering" => (config.clustering /\ AllWritten)
    \* map formatting after the three outputs, reading files that are at
    \* the final output path
    /\ \A c \in Categories :
          mapStatus[c] # "notStarted" =>
              /\ AllWritten
              /\ ppc \in { "mapFormat", "done", "rejected" }
              /\ \A d \in Categories : written[d].path = mapFormatInput(d)
    \* completion after the three map-format streams
    /\ ppc = "done" => \A c \in Categories : mapStatus[c] = "finished"
    \* until clustering has finished, a category that was started is written
    \* to the intermediate path exactly when clustering is configured
    /\ \A c \in Categories :
          /\ status[c] = "notStarted" <=> written[c] = NoFile
          /\ (status[c] # "notStarted" /\ ppc \in Categories \cup { "clustering" }) =>
                written[c].path = ConfiguredPath
          /\ (status[c] # "notStarted" /\ ~config.clustering) =>
                written[c].path = "output"

\* What holds of the phases of prepare in every step.
PhaseStep ==
    \* nothing of a category is read before the one in front of it finished
    /\ \A c, d \in Categories :
          (Position(d) < Position(c) /\ remaining'[c] # remaining[c]) =>
              status[d] = "finished"
    \* clustering is entered from the lifts, when configured
    /\ (ppc # "clustering" /\ ppc' = "clustering") =>
          /\ config.clustering
          /\ ppc = "lifts"
          /\ \A c \in Categories : status'[c] = "finished"
    \* map formatting is entered from clustering when clustering is
    \* configured, from the lifts when it is not
    /\ (ppc # "mapFormat" /\ ppc' = "mapFormat") =>
          /\ ppc = (IF config.clustering THEN "clustering" ELSE "lifts")
          /\ \A c \in Categories : status'[c] = "finished"
    /\ \A c \in Categories :
          (mapStatus[c] = "notStarted" /\ mapStatus'[c] # "notStarted") =>
              ppc = "mapFormat"
    \* completion is reported from map formatting
    /\ (ppc # "done" /\ ppc' = "done") =>
          /\ ppc = "mapFormat"
          /\ \A c \in Categories : mapStatus[c] = "finished"
    \* a category's write stream is opened on the configured path
    /\ \A c \in Categories :
          (status[c] = "notStarted" /\ status'[c] # "notStarted") =>
              /\ ppc = c
              /\ written'[c].path = ConfiguredPath

\* C21: the runs pipeline reads nothing before the ski-area output has
\* finished, and the lifts pipeline nothing before the runs output has;
\* clustering runs only when it is configured and only after the three
\* category outputs have finished; map formatting starts only after
\* clustering has finished, or after the lifts output when clustering is not
\* configured; completion is reported only after the three map-format
\* streams have finished; and a category is written to the intermediate path
\* exactly when clustering is configured, otherwise to the output path that
\* map formatting reads.
C21_PhaseOrder == [] PhaseState /\ [][PhaseStep]_vars

\* C21 witness: with clustering configured, prepare has reported completion
\* after every category was read and written and clustering has moved the
\* three files to the output path.
C21_Witness ==
    /\ config.clustering
    /\ ppc = "done"
    /\ \A c \in Categories :
          /\ remaining[c] = 0
          /\ written[c].path = "output"
          /\ written[c].count > 0
          /\ mapStatus[c] = "finished"

====
